---- MODULE Spec2Model ----
(***************************************************************************)
(* Model of frbpoppy's SurveyPopulation (src/frbpoppy/survey_pop.py): the  *)
(* constructor, det_oneoffs, det_repeaters with its pointing loop          *)
(* (_iter_pointings), calc_rates and the helper fast_where.                *)
(*                                                                         *)
(* Floats are modelled by integers; NaN is a sentinel outside the value    *)
(* range and every comparison treats it the IEEE way (always false).       *)
(* Indices are 1-based here and 0-based in the source.  The results of the *)
(* external survey model (in_region, calc_beam, calc_snr) and of the       *)
(* random draws are nondeterministic choices.  Per-burst quantities        *)
(* (s_peak, w_eff, w_arr) are taken 2-D, the case in which every index     *)
(* expression of _iter_pointings is per burst.                             *)
(***************************************************************************)
EXTENDS Integers, Sequences, FiniteSets

VARIABLES
    pc,                    \* position inside SurveyPopulation.__init__
    err,                   \* which ValueError ended the call ("" = none)
    cosmic_pop,            \* argument: the intrinsic population
    args,                  \* arguments scin and scale_by_area
    survey,                \* argument: the survey object (mutable)
    frbs,                  \* self.frbs: index, time (2-D), snr
    sr,                    \* self.source_rate
    br,                    \* self.burst_rate
    n_brst_pr_src,         \* self.n_brst_pr_src
    times,                 \* det_repeaters: window edges
    i,                     \* det_repeaters: loop index (0-based)
    keep,                  \* det_repeaters: accumulated (row, col) pairs
    srcs_not_in_pointing,  \* self.srcs_not_in_pointing
    srcs_not_bright,       \* self.srcs_not_bright
    sel_log,               \* history: per window, fast_where's t_ix and the in-beam mask p_ix
    fw                     \* a stand-alone call of fast_where

vars == <<pc, err, cosmic_pop, args, survey, frbs, sr, br, n_brst_pr_src,
          times, i, keep, srcs_not_in_pointing, srcs_not_bright, sel_log, fw>>

\* ------------------------------------------------------------------ bounds
MaxSrcs == 3
MaxRepSrcs == 1
MaxBursts == 2
MaxTime == 2
MaxDays == 2
MaxTObs == 2
SnrLimit == 2
BeamSize == 2
FwRows == 2
FwCols == 3
FwMax == 3

\* ------------------------------------------------------------------ floats
NaN == -1

IsNaN(x) == x = NaN

\* a <= b, a >= b, a > b on floats: false when either side is NaN
Le(a, b) == ~IsNaN(a) /\ ~IsNaN(b) /\ a <= b

Ge(a, b) == ~IsNaN(a) /\ ~IsNaN(b) /\ a >= b

Gt(a, b) == ~IsNaN(a) /\ ~IsNaN(b) /\ a > b

\* the order np.searchsorted compares in: NaN sorts after every number
SortLt(a, v) == ~IsNaN(a) /\ (IsNaN(v) \/ a < v)

\* ------------------------------------------------------------------ arrays
RECURSIVE Sum(_)
Sum(s) == IF s = <<>> THEN 0 ELSE Head(s) + Sum(Tail(s))

CountTrue(m) == Cardinality({k \in DOMAIN m : m[k]})

\* a[mask] for a 1-D boolean mask
RECURSIVE Compress(_, _)
Compress(s, mask) ==
    IF s = <<>> THEN <<>>
    ELSE (IF Head(mask) THEN <<Head(s)>> ELSE <<>>) \o Compress(Tail(s), Tail(mask))

Not(mask) == [k \in DOMAIN mask |-> ~mask[k]]

\* np.count_nonzero(~np.isnan(time), 1)
CountBursts(time) ==
    [r \in DOMAIN time |-> Cardinality({c \in DOMAIN time[r] : ~IsNaN(time[r][c])})]

\* time.size
Size(time) == Sum([r \in DOMAIN time |-> Len(time[r])])

\* np.arange(start, stop, step) for step > 0
Arange(start, stop, step) ==
    [k \in 1..((stop - start + step - 1) \div step) |-> start + (k - 1) * step]

\* Frbs.apply(mask), 1-D mask: rows where the mask is false are removed
Apply1D(f, mask) ==
    [index |-> Compress(f.index, mask),
     time  |-> Compress(f.time, mask),
     snr   |-> Compress(f.snr, mask)]

\* Frbs.apply(mask), 2-D mask: cells where the mask is false become NaN and
\* rows left without any cell are removed
Apply2D(f, mask) ==
    LET rows == [r \in DOMAIN mask |-> \E c \in DOMAIN mask[r] : mask[r][c]]
        cut(m) == [r \in DOMAIN m |->
                     [c \in DOMAIN m[r] |-> IF mask[r][c] THEN m[r][c] ELSE NaN]]
    IN  [index |-> Compress(f.index, rows),
         time  |-> Compress(cut(f.time), rows),
         snr   |-> Compress(cut(f.snr), rows)]

\* ------------------------------------------------------------- fast_where
\* np.searchsorted(row, v), side='left': binary search, 0-based result
RECURSIVE BinSearch(_, _, _, _)
BinSearch(row, v, lo, hi) ==
    IF lo >= hi THEN lo
    ELSE LET mid == (lo + hi) \div 2
         IN  IF SortLt(row[mid + 1], v)
             THEN BinSearch(row, v, mid + 1, hi)
             ELSE BinSearch(row, v, lo, mid)

searchsorted(row, v) == BinSearch(row, v, 0, Len(row))

\* the (row, col) pairs one row contributes: np.arange(left, right)
RowPairs(a, r, min_v, max_v) ==
    LET left  == searchsorted(a[r], min_v)
        right == searchsorted(a[r], max_v)
    IN  IF left <= right
        THEN [k \in 1..(right - left) |-> <<r, left + k>>]
        ELSE <<>>

RECURSIVE PairsFrom(_, _, _, _)
PairsFrom(a, r, min_v, max_v) ==
    IF r > Len(a) THEN <<>>
    ELSE RowPairs(a, r, min_v, max_v) \o PairsFrom(a, r + 1, min_v, max_v)

\* fast_where(a, min_v, max_v): the pairs (rows[k], cols[k]) in order
fast_where(a, min_v, max_v) == PairsFrom(a, 1, min_v, max_v)

\* np.where((a >= min_v) & (a <= max_v)), as a set of pairs
BruteForceWhere(a, min_v, max_v) ==
    {p \in (DOMAIN a) \X (1..FwCols) :
        p[2] \in DOMAIN a[p[1]]
        /\ Ge(a[p[1]][p[2]], min_v) /\ Le(a[p[1]][p[2]], max_v)}

PairSet(s) == {s[k] : k \in DOMAIN s}

\* ------------------------------------------------------------------ inputs
SnrValues == {SnrLimit - 1, SnrLimit, SnrLimit + 1, NaN}

TimeValues == 0..MaxTime

\* one source's burst epochs: ascending, NaN padding trailing
TimeRows ==
    {row \in [1..MaxBursts -> TimeValues \cup {NaN}] :
        \A k \in 1..(MaxBursts - 1) :
            IsNaN(row[k + 1]) \/ (~IsNaN(row[k]) /\ row[k] < row[k + 1])}

\* a population whose frbs were never generated (frbs.ra is None)
NotGenerated ==
    [generated |-> FALSE, repeaters |-> FALSE, n_days |-> 1, n_srcs |-> 0,
     time |-> <<>>]

\* the population is generated for MaxDays days; the survey's own n_days
\* (below) is what the windows are built from
OneoffPops ==
    {[generated |-> TRUE, repeaters |-> FALSE, n_days |-> MaxDays, n_srcs |-> n,
      time |-> [k \in 1..n |-> <<>>]] : n \in 0..MaxSrcs}

\* a row as a number, NaN last: the order the rows of a matrix are listed in
RECURSIVE RowKey(_)
RowKey(row) ==
    IF row = <<>> THEN 0
    ELSE (IF IsNaN(row[Len(row)]) THEN MaxTime + 1 ELSE row[Len(row)])
         + (MaxTime + 2) * RowKey(SubSeq(row, 1, Len(row) - 1))

\* the 2-D burst-time matrices of n sources.  Every step treats the rows
\* alike, so one matrix stands for all the orders of its rows.
TimeMatrices(n) ==
    {t \in [1..n -> TimeRows] :
        \A k \in 1..(n - 1) : RowKey(t[k]) <= RowKey(t[k + 1])}

RepeaterPops ==
    UNION {{[generated |-> TRUE, repeaters |-> TRUE, n_days |-> MaxDays,
             n_srcs |-> n, time |-> t] : t \in TimeMatrices(n)}
           : n \in 0..MaxRepSrcs}

\* survey.n_days = 0 stands for None (unset)
Surveys ==
    [n_days : 0..MaxDays, t_obs : 1..MaxTObs, snr_limit : {SnrLimit},
     beam_size : {BeamSize}]

NoRates ==
    [tot |-> 0, out |-> 0, late |-> 0, faint |-> 0, pointing |-> 0, det |-> 0,
     days |-> 0, f_area |-> [set |-> FALSE, num |-> 0, den |-> 1, per_sky |-> FALSE]]

NoFrbs == [index |-> <<>>, time |-> <<>>, snr |-> <<>>]

NoFw == [a |-> <<>>, min_v |-> 0, max_v |-> 0, called |-> FALSE, out |-> <<>>]

\* the state of an object before __init__ has assigned anything
Blank ==
    /\ err = ""
    /\ frbs = NoFrbs
    /\ sr = NoRates
    /\ br = NoRates
    /\ n_brst_pr_src = <<>>
    /\ times = <<>>
    /\ i = 0
    /\ keep = <<>>
    /\ srcs_not_in_pointing = <<>>
    /\ srcs_not_bright = <<>>
    /\ sel_log = <<>>

\* scale_by_area is read by det_oneoffs only; it keeps its default (True)
\* for a repeating population
Init ==
    /\ pc = "start"
    /\ cosmic_pop \in {NotGenerated} \cup OneoffPops \cup RepeaterPops
    /\ args \in [scin : BOOLEAN, scale_by_area : BOOLEAN]
    /\ (cosmic_pop.repeaters \/ ~cosmic_pop.generated) => args.scale_by_area
    /\ ~cosmic_pop.generated => ~args.scin
    /\ survey \in Surveys
    /\ Blank
    /\ fw = NoFw

\* ------------------------------------------------------- __init__, part 1
\* lines 35-82: precondition checks, attributes, first bookkeeping
Construct ==
    /\ pc = "start"
    /\ IF ~cosmic_pop.generated
       THEN /\ pc' = "error"
            /\ err' = "not_generated"
            /\ UNCHANGED <<survey, frbs, sr, br, n_brst_pr_src>>
       ELSE /\ survey' = [survey EXCEPT !.n_days =
                             IF @ = 0 THEN cosmic_pop.n_days ELSE @]
            /\ frbs' = [index |-> [k \in 1..cosmic_pop.n_srcs |-> k],
                        time  |-> cosmic_pop.time,
                        snr   |-> <<>>]
            /\ IF cosmic_pop.repeaters /\ args.scin
               THEN /\ pc' = "error"
                    /\ err' = "scin_repeaters"
                    /\ UNCHANGED <<sr, br, n_brst_pr_src>>
               ELSE /\ pc' = "region"
                    /\ err' = err
                    /\ IF cosmic_pop.repeaters
                       THEN LET tot == Size(cosmic_pop.time)
                                n   == CountBursts(cosmic_pop.time)
                            IN  /\ n_brst_pr_src' = n
                                /\ br' = [br EXCEPT !.tot = tot,
                                                    !.late = @ + tot - Sum(n)]
                                /\ sr' = [sr EXCEPT !.tot = cosmic_pop.n_srcs,
                                                    !.late = @ + cosmic_pop.n_srcs - Len(n)]
                       ELSE /\ sr' = [sr EXCEPT !.tot = cosmic_pop.n_srcs]
                            /\ UNCHANGED <<br, n_brst_pr_src>>
    /\ UNCHANGED <<cosmic_pop, args, times, i, keep, srcs_not_in_pointing,
                   srcs_not_bright, sel_log, fw>>

\* ------------------------------------------------------- __init__, part 2
\* lines 84-121: region mask (survey.in_region's answer is any mask), the
\* derived quantities, then the fork to the detector
RegionFilter ==
    /\ pc = "region"
    /\ \E region_mask \in [DOMAIN frbs.index -> BOOLEAN] :
          /\ frbs' = Apply1D(frbs, region_mask)
          /\ sr' = [sr EXCEPT !.out = CountTrue(Not(region_mask))]
          /\ IF cosmic_pop.repeaters
             THEN /\ br' = [br EXCEPT !.out =
                               Sum(Compress(n_brst_pr_src, Not(region_mask)))]
                  /\ n_brst_pr_src' = Compress(n_brst_pr_src, region_mask)
                  /\ pc' = "det_repeaters"
             ELSE /\ UNCHANGED <<br, n_brst_pr_src>>
                  /\ pc' = "det_oneoffs"
    /\ UNCHANGED <<err, cosmic_pop, args, survey, times, i, keep,
                   srcs_not_in_pointing, srcs_not_bright, sel_log, fw>>

\* ------------------------------------------------------------- calc_rates
\* lines 362-369: the area-scaling factor as the fraction
\* num / (den * area_sky), or exactly 1 when nothing was inside
FAreaNoFallback(beam_size, tot, inside) ==
    [set |-> TRUE, num |-> beam_size * tot, den |-> inside, per_sky |-> TRUE]

FArea(beam_size, tot, inside) ==
    IF inside > 0
    THEN [set |-> TRUE, num |-> beam_size * tot, den |-> inside, per_sky |-> TRUE]
    ELSE [set |-> TRUE, num |-> 1, den |-> 1, per_sky |-> FALSE]

\* lines 359-386, on the source counters rates: days is stored always, f_area
\* (followed by Rates.scale_by_area) for one-offs only
RatesAfter(rates, repeaters) ==
    LET inside == rates.det + rates.late + rates.faint
        f_area == FArea(survey.beam_size, rates.tot, inside)
    IN  IF repeaters
        THEN [rates EXCEPT !.days = cosmic_pop.n_days]
        ELSE [rates EXCEPT !.days = cosmic_pop.n_days, !.f_area = f_area]

calc_rates ==
    /\ pc = "calc_rates"
    /\ sr' = RatesAfter(sr, cosmic_pop.repeaters)
    /\ br' = IF cosmic_pop.repeaters
             THEN [br EXCEPT !.days = cosmic_pop.n_days]
             ELSE br
    /\ pc' = "done"
    /\ UNCHANGED <<err, cosmic_pop, args, survey, frbs, n_brst_pr_src, times, i,
                   keep, srcs_not_in_pointing, srcs_not_bright, sel_log, fw>>

\* ------------------------------------------------------------ det_oneoffs
\* line 154
SnrMaskOneoff(snr, limit) == [k \in DOMAIN snr |-> Ge(snr[k], limit)]

RemovedCountsKept(mask) == CountTrue(mask)

\* lines 156 and 162-163: the number a mask removes
Removed(mask) == Len(mask) - CountTrue(mask)

\* lines 126-169: calc_snr's answer is any SNR per source, the survival
\* draw any mask
det_oneoffs ==
    /\ pc = "det_oneoffs"
    /\ \E snr \in [DOMAIN frbs.index -> SnrValues] :
         LET snr_mask == SnrMaskOneoff(snr, survey.snr_limit)
             f1       == Apply1D([frbs EXCEPT !.snr = snr], snr_mask)
         IN  \E rate_mask \in [DOMAIN f1.index -> BOOLEAN] :
               LET f2 == Apply1D(f1, rate_mask)
               IN  /\ frbs' = f2
                   /\ sr' = [sr EXCEPT !.faint = Removed(snr_mask),
                                       !.late  = Removed(rate_mask),
                                       !.det   = Len(f2.snr)]
    /\ pc' = IF args.scale_by_area THEN "calc_rates" ELSE "done"
    /\ UNCHANGED <<err, cosmic_pop, args, survey, br, n_brst_pr_src, times, i,
                   keep, srcs_not_in_pointing, srcs_not_bright, sel_log, fw>>

\* ---------------------------------------------------------- det_repeaters
\* line 191
TimeMask(time, last) ==
    [r \in DOMAIN time |-> [c \in DOMAIN time[r] |-> Le(time[r][c], last)]]

\* lines 171-219: window edges, the survey-time cut and its bookkeeping,
\* the NaN-filled snr matrix, the two flag arrays, the empty keep list
det_repeaters ==
    /\ pc = "det_repeaters"
    /\ LET t_obs     == survey.t_obs
           max_t     == survey.n_days
           ts        == Arange(0, max_t + t_obs, t_obs)
           time_mask == TimeMask(frbs.time, ts[Len(ts)])
           f1        == Apply2D(frbs, time_mask)
       IN  /\ times' = ts
           /\ frbs' = [f1 EXCEPT !.snr =
                          [r \in DOMAIN f1.time |->
                              [c \in DOMAIN f1.time[r] |-> NaN]]]
           /\ br' = [br EXCEPT !.late = @ +
                       Sum([r \in DOMAIN time_mask |->
                              n_brst_pr_src[r] - CountTrue(time_mask[r])])]
           /\ sr' = [sr EXCEPT !.late = @ + Len(time_mask) - Len(f1.time)]
           /\ srcs_not_in_pointing' = [r \in DOMAIN f1.index |-> TRUE]
           /\ srcs_not_bright' = [r \in DOMAIN f1.index |-> TRUE]
    /\ keep' = <<>>
    /\ i' = 0
    /\ pc' = "loop"
    /\ UNCHANGED <<err, cosmic_pop, args, survey, n_brst_pr_src, sel_log, fw>>

\* -------------------------------------------------------- _iter_pointings
\* line 351
SnrMaskRepeater(snr, limit) == [k \in DOMAIN snr |-> Gt(snr[k], limit)]

ClearFlagsReset(flags, rows) == [r \in DOMAIN flags |-> r \notin rows]

\* lines 281 and 355: flags[rows] = False
ClearFlags(flags, rows) == [r \in DOMAIN flags |-> flags[r] /\ r \notin rows]

Rows(pairs) == {pairs[k][1] : k \in DOMAIN pairs}

\* frbs.snr[ix] = values
SetCells(m, ix, values) ==
    [r \in DOMAIN m |->
        [c \in DOMAIN m[r] |->
            IF \E k \in DOMAIN ix : ix[k] = <<r, c>>
            THEN values[CHOOSE k \in DOMAIN ix : ix[k] = <<r, c>>]
            ELSE m[r][c]]]

\* lines 220-227 and 250-357: one pass of the loop.  calc_beam's answer is
\* any in-beam mask over the selected bursts, calc_snr's any SNR per
\* in-beam burst.  np.apply_along_axis raises ValueError on a matrix
\* without rows.
iter_pointings ==
    /\ pc = "loop"
    /\ IF Len(frbs.time) = 0
       THEN /\ pc' = "error"
            /\ err' = "empty_frame"
            /\ UNCHANGED <<frbs, br, i, keep, srcs_not_in_pointing,
                           srcs_not_bright, sel_log>>
       ELSE LET t_ix == fast_where(frbs.time, times[i + 1], times[i + 2])
            IN  \E p_ix \in [DOMAIN t_ix -> BOOLEAN] :
                  LET tp_ix  == Compress(t_ix, p_ix)
                      tnp_ix == Compress(t_ix, Not(p_ix))
                  IN  \E snr \in [DOMAIN tp_ix -> SnrValues] :
                        LET snr_m     == SnrMaskRepeater(snr, survey.snr_limit)
                            s_peak_ix == Compress(tp_ix, snr_m)
                        IN  /\ frbs' = [frbs EXCEPT !.snr = SetCells(@, tp_ix, snr)]
                            /\ br' = [br EXCEPT
                                        !.pointing = @ + Len(tnp_ix),
                                        !.faint = @ + Len(tp_ix) - Len(s_peak_ix)]
                            /\ srcs_not_in_pointing' =
                                   ClearFlags(srcs_not_in_pointing, Rows(tp_ix))
                            /\ srcs_not_bright' =
                                   ClearFlags(srcs_not_bright, Rows(s_peak_ix))
                            /\ keep' = keep \o s_peak_ix
                            /\ sel_log' = Append(sel_log, [t_ix |-> t_ix, p_ix |-> p_ix])
                            /\ i' = i + 1
                            /\ pc' = IF i + 1 = Len(times) - 1 THEN "post" ELSE "loop"
                            /\ err' = err
    /\ UNCHANGED <<cosmic_pop, args, survey, sr, n_brst_pr_src, times, fw>>

\* ------------------------------------------------ det_repeaters, the rest
ClearNotBrightSkipped(not_bright, not_in_pointing) == not_bright

\* line 231: srcs_not_bright[srcs_not_in_pointing] = False
ClearNotBright(not_bright, not_in_pointing) ==
    [r \in DOMAIN not_bright |-> not_bright[r] /\ ~not_in_pointing[r]]

\* lines 236-237
KeepMask(snr, pairs) ==
    [r \in DOMAIN snr |-> [c \in DOMAIN snr[r] |-> <<r, c>> \in PairSet(pairs)]]

\* lines 229-248
post_loop ==
    /\ pc = "post"
    /\ LET not_bright == ClearNotBright(srcs_not_bright, srcs_not_in_pointing)
           snr_mask   == KeepMask(frbs.snr, keep)
       IN  /\ srcs_not_bright' = not_bright
           /\ sr' = [sr EXCEPT !.pointing = CountTrue(srcs_not_in_pointing),
                               !.faint = CountTrue(not_bright),
                               !.det = Cardinality(Rows(keep))]
           /\ br' = [br EXCEPT !.det = Sum([r \in DOMAIN snr_mask |->
                                               CountTrue(snr_mask[r])])]
           /\ frbs' = Apply2D(frbs, snr_mask)
    /\ pc' = "calc_rates"
    /\ UNCHANGED <<err, cosmic_pop, args, survey, n_brst_pr_src, times, i, keep,
                   srcs_not_in_pointing, sel_log, fw>>

Next ==
    \/ Construct
    \/ RegionFilter
    \/ det_oneoffs
    \/ det_repeaters
    \/ iter_pointings
    \/ post_loop
    \/ calc_rates

Spec == Init /\ [][Next]_vars

\* -------------------------------------------- fast_where, on its own
\* rows sorted ascending (ties allowed), NaN padding trailing
FwRowSet ==
    {row \in [1..FwCols -> (0..FwMax) \cup {NaN}] :
        \A k \in 1..(FwCols - 1) :
            IsNaN(row[k + 1]) \/ (~IsNaN(row[k]) /\ row[k] <= row[k + 1])}

InitFW ==
    /\ pc = "idle"
    /\ cosmic_pop = NotGenerated
    /\ args = [scin |-> FALSE, scale_by_area |-> TRUE]
    /\ survey = [n_days |-> 0, t_obs |-> 1, snr_limit |-> SnrLimit,
                 beam_size |-> BeamSize]
    /\ Blank
    /\ \E a \in [1..FwRows -> FwRowSet], lo \in 0..FwMax, hi \in 0..FwMax :
          /\ lo <= hi
          /\ fw = [a |-> a, min_v |-> lo, max_v |-> hi, called |-> FALSE,
                   out |-> <<>>]

FastWhereCall ==
    /\ pc = "idle"
    /\ ~fw.called
    /\ fw' = [fw EXCEPT !.called = TRUE,
                        !.out = fast_where(fw.a, fw.min_v, fw.max_v)]
    /\ UNCHANGED <<pc, err, cosmic_pop, args, survey, frbs, sr, br,
                   n_brst_pr_src, times, i, keep, srcs_not_in_pointing,
                   srcs_not_bright, sel_log>>

NextFW == FastWhereCall

SpecFW == InitFW /\ [][NextFW]_vars

\* ================================================================ claims
\* the (row, col) pairs fast_where selected in window w, and those of them
\* inside the beam
Selected(w) == PairSet(sel_log[w].t_ix)

InBeam(w) == PairSet(Compress(sel_log[w].t_ix, sel_log[w].p_ix))

EverInBeam == UNION {InBeam(w) : w \in DOMAIN sel_log}

SrcEverInBeam(r) == \E p \in EverInBeam : p[1] = r

Cells(m) == {p \in (DOMAIN m) \X (1..MaxBursts) : p[2] \in DOMAIN m[p[1]]}

AfterDetection == pc \in {"calc_rates", "done"}

Oneoff == cosmic_pop.generated /\ ~cosmic_pop.repeaters

Inside == sr.det + sr.late + sr.faint

C2_BurstConservation ==
    (pc = "done" /\ cosmic_pop.repeaters /\ br.out = 0) =>
        br.tot = br.late + br.pointing + br.faint + br.det

\* C3: fast_where returns exactly the index pairs of the element-wise mask
\* (a >= min_v) & (a <= max_v), for rows sorted ascending with trailing NaN
\* and min_v <= max_v.
C3_FastWhereEqualsMask ==
    fw.called => PairSet(fw.out) = BruteForceWhere(fw.a, fw.min_v, fw.max_v)

\* C4: after the survey-time cut no burst later than the survey's n_days is
\* left in the frame, and no window ever selects one.
C4_NoBurstAfterSurvey ==
    (pc \in {"loop", "post"}) =>
        /\ \A p \in Cells(frbs.time) :
              ~Gt(frbs.time[p[1]][p[2]], survey.n_days)
        /\ \A w \in DOMAIN sel_log : \A p \in Selected(w) :
              ~Gt(frbs.time[p[1]][p[2]], survey.n_days)

\* C5: the step that raises the scintillation-with-repeaters error changes
\* nothing the caller can see: the survey (its n_days included) and the
\* counters are as before the call.
C5_RejectionChangesNothing ==
    [][(pc' = "error" /\ err' = "scin_repeaters") =>
          (survey' = survey /\ sr' = sr /\ br' = br)]_vars

\* C6: after calc_rates a one-off population's f_area is
\* beam_size * tot / ((det + late + faint) * area_sky) when det + late +
\* faint > 0 and exactly 1 when it is 0; a repeating population's f_area is
\* never set.
C6_AreaFactor ==
    (pc = "done") =>
        /\ (Oneoff /\ args.scale_by_area /\ Inside > 0) =>
              sr.f_area = [set |-> TRUE, num |-> survey.beam_size * sr.tot,
                           den |-> Inside, per_sky |-> TRUE]
        /\ (Oneoff /\ args.scale_by_area /\ Inside = 0) =>
              sr.f_area = [set |-> TRUE, num |-> 1, den |-> 1, per_sky |-> FALSE]
        /\ cosmic_pop.repeaters => (~sr.f_area.set /\ ~br.f_area.set)

\* a finished one-off run in which every source was out of region
C6_Witness ==
    /\ pc = "done" /\ Oneoff /\ args.scale_by_area
    /\ sr.tot > 0 /\ Inside = 0 /\ sr.f_area.set

\* C7: after the pointing loop every source that entered it is in exactly
\* one class: never inside a beam (out_of_pointing), inside a beam but
\* without a kept burst (too_faint), or with a kept burst (detected); the
\* source counters are the sizes of the classes and add up, with
\* out_of_region and too_late, to the total.
C7_SourceClassification ==
    (AfterDetection /\ cosmic_pop.repeaters) =>
        LET srcs     == DOMAIN srcs_not_in_pointing
            pointing == {r \in srcs : ~SrcEverInBeam(r)}
            detected == {r \in srcs : r \in Rows(keep)}
            faint    == {r \in srcs : SrcEverInBeam(r) /\ r \notin Rows(keep)}
        IN  /\ detected \cap pointing = {}
            /\ srcs = pointing \cup faint \cup detected
            /\ sr.pointing = Cardinality(pointing)
            /\ sr.faint = Cardinality(faint)
            /\ sr.det = Cardinality(detected)
            /\ sr.tot = sr.out + sr.late + sr.pointing + sr.faint + sr.det

\* a finished repeater run whose source is detected although one of its
\* bursts was inside a beam and too faint
C7_Witness ==
    /\ pc = "done" /\ cosmic_pop.repeaters
    /\ sr.det = 1 /\ sr.faint = 0 /\ br.faint >= 1

\* C8: both flags are true for every source when the loop is entered, a
\* flag that is false stays false in every later step, and a window that
\* selects no burst changes no counter, flag or kept pair.
C8_FlagMonotone ==
    [][/\ (pc = "det_repeaters" /\ pc' = "loop") =>
             \A r \in DOMAIN srcs_not_in_pointing' :
                 srcs_not_in_pointing'[r] /\ srcs_not_bright'[r]
       /\ \A r \in DOMAIN srcs_not_in_pointing :
             /\ r \in DOMAIN srcs_not_in_pointing'
             /\ ~srcs_not_in_pointing[r] => ~srcs_not_in_pointing'[r]
             /\ ~srcs_not_bright[r] => ~srcs_not_bright'[r]
       /\ (pc = "loop" /\ Len(sel_log') > Len(sel_log)
             /\ sel_log'[Len(sel_log')].t_ix = <<>>) =>
             UNCHANGED <<sr, br, keep, srcs_not_in_pointing, srcs_not_bright>>
      ]_vars

\* a window that selected nothing has run after a source's flags were cleared
C8_Witness ==
    /\ Len(sel_log) >= 2
    /\ sel_log[Len(sel_log)].t_ix = <<>>
    /\ \E r \in DOMAIN srcs_not_in_pointing :
          ~srcs_not_in_pointing[r] /\ ~srcs_not_bright[r]

\* C9: when the loop has ended, every burst the survey-time cut retained was
\* selected by fast_where in exactly one window.
C9_ExactlyOneWindow ==
    (pc = "post") =>
        \A p \in Cells(frbs.time) :
            ~IsNaN(frbs.time[p[1]][p[2]]) =>
                Cardinality({w \in DOMAIN sel_log : p \in Selected(w)}) = 1

\* C10: the pointing loop keeps an in-beam burst exactly when the one-off
\* rule (SNR >= limit) would keep a source of that SNR.
C10_SameSnrRule ==
    (pc \in {"loop", "post"}) =>
        \A p \in EverInBeam :
            (p \in PairSet(keep)) <=>
                SnrMaskOneoff(<<frbs.snr[p[1]][p[2]]>>, survey.snr_limit)[1]

====
